---- MODULE Spec2Model ----
(***************************************************************************)
(* Model of the Xray-ECG AI service (src/ai_service/main.py): the /health  *)
(* endpoint and the /predict handler, whose two awaited payload reads are  *)
(* the points at which other requests may run.                             *)
(*                                                                         *)
(* Probabilities are written in hundredths: 0.12 is 12, 0.5 is 50, 1.0 is  *)
(* 100.  A payload is a sequence of bytes; a string is a sequence of       *)
(* one-character strings.  A Python dict is the sequence of its items in   *)
(* insertion order.                                                        *)
(***************************************************************************)
EXTENDS Integers, Sequences, FiniteSets, TLC

\* Number of request slots the server handles at once.
NumReq == 2
\* Longest payload, in bytes.
MaxLen == 2

Reqs == 1..NumReq

Byte == {0, 1}

Payloads == UNION {[1..n -> Byte] : n \in 0..MaxLen}

\* ---------------------------------------------------------------------
\* Strings
\* ---------------------------------------------------------------------

\* Upper/lower pairs of the letters that occur in the filenames below.
CasePairs ==
    {<<"I", "i">>, <<"M", "m">>, <<"A", "a">>, <<"G", "g">>, <<"E", "e">>}

\* Variant: the name is compared as given, without lower()
LowerCharId(c) == c

\* str.lower() on one character
LowerChar(c) ==
    IF \E p \in CasePairs : p[1] = c
    THEN (CHOOSE p \in CasePairs : p[1] = c)[2]
    ELSE c

\* str.lower()
Lower(s) == [i \in 1..Len(s) |-> LowerChar(s[i])]

\* sub in s
Contains(s, sub) ==
    \E i \in 0..(Len(s) - Len(sub)) : SubSeq(s, i + 1, i + Len(sub)) = sub

image1 == <<"i", "m", "a", "g", "e", "1">>
image2 == <<"i", "m", "a", "g", "e", "2">>
image3 == <<"i", "m", "a", "g", "e", "3">>

\* UploadFile.filename is Optional[str]
NoFilename == [isNone |-> TRUE, str |-> <<>>]
Named(s) == [isNone |-> FALSE, str |-> s]

\* (cxr.filename or "").lower(): None and "" are both falsy
LoweredName(f) == Lower(IF f.isNone \/ f.str = <<>> THEN <<>> ELSE f.str)

\* ---------------------------------------------------------------------
\* Requests
\* ---------------------------------------------------------------------

Filenames ==
    { NoFilename,
      Named(<<>>),
      Named(<<"x", "I", "m", "a", "g", "e", "1">>),
      Named(<<"i", "m", "a", "g", "e", "2", ".", "p">>),
      Named(<<"I", "M", "A", "G", "E", "3">>),
      Named(<<"i", "m", "a", "g", "e", "3", "I", "m", "a", "g", "e", "1">>),
      Named(<<"i", "m", "a", "g", "e", "3", "_", "i", "M", "A", "G", "E", "2">>),
      Named(<<"r", "a", "n", "d", "o", "m">>),
      Named(<<"i", "m", "a", "g", "e", "4">>),
      Named(<<"i", "m", "a", "g", "_", "e", "1">>) }

Requests == [filename : Filenames, cxr : Payloads, ecg : Payloads]

NoReq == [filename |-> NoFilename, cxr |-> <<>>, ecg |-> <<>>]

\* Requests used when several are in flight together: every scoring path,
\* both errors, and fallback requests of equal total length that differ in
\* content and in how the total is split.
ConcRequests ==
    { [filename |-> NoFilename,                         cxr |-> <<1>>,    ecg |-> <<0>>],
      [filename |-> Named(<<"r", "a", "n", "d", "o", "m">>), cxr |-> <<1>>, ecg |-> <<1>>],
      [filename |-> NoFilename,                         cxr |-> <<1, 0>>, ecg |-> <<0>>],
      [filename |-> Named(<<"r", "a", "n", "d", "o", "m">>), cxr |-> <<1, 1>>, ecg |-> <<1>>],
      [filename |-> Named(<<"i", "m", "a", "g", "e", "4">>), cxr |-> <<1>>, ecg |-> <<0, 1>>],
      [filename |-> Named(<<"x", "I", "m", "a", "g", "e", "1">>), cxr |-> <<1>>, ecg |-> <<0>>],
      [filename |-> Named(<<"I", "M", "A", "G", "E", "3">>), cxr |-> <<1, 0>>, ecg |-> <<1>>],
      [filename |-> Named(<<"r", "a", "n", "d", "o", "m">>), cxr |-> <<0>>, ecg |-> <<>>],
      [filename |-> Named(<<"r", "a", "n", "d", "o", "m">>), cxr |-> <<1>>, ecg |-> <<>>] }

\* ---------------------------------------------------------------------
\* Library behaviour the handler relies on
\* ---------------------------------------------------------------------

\* Image.open(io.BytesIO(b)).convert("RGB") returns (TRUE) or raises
\* (FALSE).  Pillow identifies a format by the leading signature of the
\* data; here the signature is the single byte 1.
Decodable(b) == Len(b) >= 1 /\ b[1] = 1

\* np.random.default_rng(seed): the generator state, a fixed function of
\* the seed.  A 16-bit congruential generator stands for PCG64: the seed is
\* expanded by two rounds, every draw advances the state once.
RngStep(s) == (s * 25173 + 13849) % 65536

default_rng(seed) == RngStep(RngStep(seed % 65536))

\* rng.random(n): n draws, each the state scaled into [0, 1)
RECURSIVE random(_, _)
random(s, n) ==
    IF n = 0 THEN <<>>
    ELSE <<(RngStep(s) * 100) \div 65536>> \o random(RngStep(s), n - 1)

\* float(v) of a Python float or a numpy float64: the same IEEE double
Float(v) == v

\* ---------------------------------------------------------------------
\* Python dict, as the sequence of its items
\* ---------------------------------------------------------------------

\* Variant: an assignment always adds an item, also for an existing key
DictSetAppend(d, k, v) == Append(d, [k |-> k, v |-> v])

\* d[k] = v: an existing key keeps its place, a new key goes last
DictSet(d, k, v) ==
    IF \E i \in 1..Len(d) : d[i].k = k
    THEN [i \in 1..Len(d) |-> IF d[i].k = k THEN [k |-> k, v |-> v] ELSE d[i]]
    ELSE Append(d, [k |-> k, v |-> v])

\* {label: v for label in labels}
RECURSIVE DictFill(_, _)
DictFill(labels, v) ==
    IF labels = <<>> THEN <<>>
    ELSE DictSet(DictFill(SubSeq(labels, 1, Len(labels) - 1), v),
                 labels[Len(labels)], v)

\* {labels[i]: float(p) for i, p in enumerate(probs)}
RECURSIVE DictEnum(_, _)
DictEnum(labels, probs) ==
    IF probs = <<>> THEN <<>>
    ELSE DictSet(DictEnum(labels, SubSeq(probs, 1, Len(probs) - 1)),
                 labels[Len(probs)], Float(probs[Len(probs)]))

\* ---------------------------------------------------------------------
\* Responses
\* ---------------------------------------------------------------------

\* raise HTTPException(status_code=..., detail=...)
HTTPException(status_code, detail) ==
    [status |-> status_code, body |-> [detail |-> detail]]

\* JSONResponse(content), status 200
JSONResponse(content) == [status |-> 200, body |-> content]

\* No response produced yet
NoResp == [status |-> 0, body |-> [detail |-> ""]]

\* ---------------------------------------------------------------------
\* Scoring
\* ---------------------------------------------------------------------

\* [{"finding": k, "confidence_score": float(v)}
\*  for k, v in probs_map.items() if v >= 0.5]
RECURSIVE FindingsOfItems(_)
FindingsOfItems(items) ==
    IF items = <<>> THEN <<>>
    ELSE (IF Head(items).v >= 50
          THEN <<[finding |-> Head(items).k,
                  confidence_score |-> Float(Head(items).v)]>>
          ELSE <<>>)
         \o FindingsOfItems(Tail(items))

\* Variant: the threshold test is p > 0.5
RECURSIVE FindingsOfProbsStrict(_, _)
FindingsOfProbsStrict(labels, probs) ==
    IF probs = <<>> THEN <<>>
    ELSE FindingsOfProbsStrict(labels, SubSeq(probs, 1, Len(probs) - 1))
         \o (IF probs[Len(probs)] > 50
             THEN <<[finding |-> labels[Len(probs)],
                     confidence_score |-> Float(probs[Len(probs)])]>>
             ELSE <<>>)

\* [{"finding": CLASS_LABELS[i], "confidence_score": float(p)}
\*  for i, p in enumerate(probs) if p >= 0.5]
RECURSIVE FindingsOfProbs(_, _)
FindingsOfProbs(labels, probs) ==
    IF probs = <<>> THEN <<>>
    ELSE FindingsOfProbs(labels, SubSeq(probs, 1, Len(probs) - 1))
         \o (IF probs[Len(probs)] >= 50
             THEN <<[finding |-> labels[Len(probs)],
                     confidence_score |-> Float(probs[Len(probs)])]>>
             ELSE <<>>)

\* The "image1"/"image2" branch
Canned12Response(labels) ==
    LET probs_map ==
            DictSet(DictSet(DictFill(labels, 12), "Cardiomegaly", 92),
                    "Effusion", 78)
    IN  JSONResponse([success |-> TRUE,
                      findings |-> FindingsOfItems(probs_map),
                      probabilities |-> probs_map])

\* Variant: the baseline of the "image3" branch is 0.8
Canned3ResponseHigh(labels) ==
    JSONResponse([success |-> TRUE,
                  findings |-> <<>>,
                  probabilities |-> DictFill(labels, 80)])

\* The "image3" branch
Canned3Response(labels) ==
    JSONResponse([success |-> TRUE,
                  findings |-> <<>>,
                  probabilities |-> DictFill(labels, 8)])

\* Variant: the seed keeps the two lengths apart
SeedSplit(cxr_b, ecg_b) == Len(cxr_b) * 256 + Len(ecg_b)

\* seed = len(cxr_bytes) + len(ecg_bytes)
Seed(cxr_b, ecg_b) == Len(cxr_b) + Len(ecg_b)

\* The fallback branch
FallbackResponse(labels, cxr_b, ecg_b) ==
    LET probs == random(default_rng(Seed(cxr_b, ecg_b)), Len(labels))
    IN  JSONResponse([success |-> TRUE,
                      findings |-> FindingsOfProbs(labels, probs),
                      probabilities |-> DictEnum(labels, probs)])

\* predict() run from entry to return with nothing else running
PredictAlone(labels, q) ==
    IF ~Decodable(q.cxr) THEN HTTPException(400, "Invalid CXR image")
    ELSE IF Len(q.ecg) = 0 THEN HTTPException(400, "Invalid ECG data")
    ELSE IF Contains(LoweredName(q.filename), image1)
            \/ Contains(LoweredName(q.filename), image2)
         THEN Canned12Response(labels)
    ELSE IF Contains(LoweredName(q.filename), image3)
         THEN Canned3Response(labels)
    ELSE FallbackResponse(labels, q.cxr, q.ecg)

\* ---------------------------------------------------------------------
\* State
\* ---------------------------------------------------------------------

VARIABLES
    CLASS_LABELS,   \* the module-level list
    pc,             \* per slot: where the handler stands
    req,            \* per slot: the request (filename and the two uploads)
    cxr_bytes,      \* per slot: local of predict()
    ecg_bytes,      \* per slot: local of predict()
    resp,           \* per slot: the response of predict()
    steps,          \* per slot: the handler blocks run so far
    healthResp      \* the last response of /health

vars == <<CLASS_LABELS, pc, req, cxr_bytes, ecg_bytes, resp, steps, healthResp>>

Labels14 ==
    <<"Atelectasis", "Cardiomegaly", "Consolidation", "Edema", "Effusion",
      "Emphysema", "Fibrosis", "Hernia", "Infiltration", "Mass",
      "Nodule", "Pleural_Thickening", "Pneumonia", "Pneumothorax">>

Init ==
    /\ CLASS_LABELS = Labels14
    /\ pc = [r \in Reqs |-> "idle"]
    /\ req = [r \in Reqs |-> NoReq]
    /\ cxr_bytes = [r \in Reqs |-> <<>>]
    /\ ecg_bytes = [r \in Reqs |-> <<>>]
    /\ resp = [r \in Reqs |-> NoResp]
    /\ steps = [r \in Reqs |-> <<>>]
    /\ healthResp = NoResp

\* ---------------------------------------------------------------------
\* Operations
\* ---------------------------------------------------------------------

\* Variant: /health reports the failure of a request
HealthDegraded ==
    /\ healthResp' = IF \E r \in Reqs : resp[r].status = 400
                     THEN [status |-> 503, body |-> [status |-> "degraded"]]
                     ELSE JSONResponse([status |-> "ok"])
    /\ UNCHANGED <<CLASS_LABELS, pc, req, cxr_bytes, ecg_bytes, resp, steps>>

\* GET /health
Health ==
    /\ healthResp' = JSONResponse([status |-> "ok"])
    /\ UNCHANGED <<CLASS_LABELS, pc, req, cxr_bytes, ecg_bytes, resp, steps>>

\* The framework calls predict(cxr, ecg) for request q in slot r; the
\* handler runs to its first await.
Accept(r, q) ==
    /\ pc[r] = "idle"
    /\ pc' = [pc EXCEPT ![r] = "read_cxr"]
    /\ req' = [req EXCEPT ![r] = q]
    /\ UNCHANGED <<CLASS_LABELS, cxr_bytes, ecg_bytes, resp, steps, healthResp>>

\* A request arrives while the server handles no other.
ArriveSerial(r) ==
    /\ \A o \in Reqs : pc[o] = "idle"
    /\ \E q \in Requests : Accept(r, q)

\* A request arrives, others may be in flight.
ArriveConc(r) ==
    \E q \in ConcRequests : Accept(r, q)

\* Variant: a decoding failure is swallowed and the handler goes on
ReadCxrSwallow(r) ==
    /\ pc[r] = "read_cxr"
    /\ cxr_bytes' = [cxr_bytes EXCEPT ![r] = req[r].cxr]
    /\ steps' = [steps EXCEPT ![r] = Append(@, "read_cxr")]
    /\ pc' = [pc EXCEPT ![r] = "read_ecg"]
    /\ UNCHANGED <<CLASS_LABELS, req, ecg_bytes, resp, healthResp>>

\* Variant: cxr_bytes is one module-level buffer, not a local
ReadCxrShared(r) ==
    /\ pc[r] = "read_cxr"
    /\ cxr_bytes' = [o \in Reqs |-> req[r].cxr]
    /\ steps' = [steps EXCEPT ![r] = Append(@, "read_cxr")]
    /\ IF Decodable(req[r].cxr)
       THEN /\ pc' = [pc EXCEPT ![r] = "read_ecg"]
            /\ resp' = resp
       ELSE /\ pc' = [pc EXCEPT ![r] = "done"]
            /\ resp' = [resp EXCEPT ![r] = HTTPException(400, "Invalid CXR image")]
    /\ UNCHANGED <<CLASS_LABELS, req, ecg_bytes, healthResp>>

\* cxr.read() completes; the image is decoded; on success the handler runs
\* to its second await.
ReadCxr(r) ==
    /\ pc[r] = "read_cxr"
    /\ cxr_bytes' = [cxr_bytes EXCEPT ![r] = req[r].cxr]
    /\ steps' = [steps EXCEPT ![r] = Append(@, "read_cxr")]
    /\ IF Decodable(req[r].cxr)
       THEN /\ pc' = [pc EXCEPT ![r] = "read_ecg"]
            /\ resp' = resp
       ELSE /\ pc' = [pc EXCEPT ![r] = "done"]
            /\ resp' = [resp EXCEPT ![r] = HTTPException(400, "Invalid CXR image")]
    /\ UNCHANGED <<CLASS_LABELS, req, ecg_bytes, healthResp>>

\* Variant: the signal is parsed, a payload starting with byte 0 is rejected
ReadEcgParsed(r) ==
    /\ pc[r] = "read_ecg"
    /\ ecg_bytes' = [ecg_bytes EXCEPT ![r] = req[r].ecg]
    /\ steps' = [steps EXCEPT ![r] = Append(@, "read_ecg")]
    /\ IF Len(req[r].ecg) = 0 \/ req[r].ecg[1] = 0
       THEN /\ pc' = [pc EXCEPT ![r] = "done"]
            /\ resp' = [resp EXCEPT ![r] = HTTPException(400, "Invalid ECG data")]
       ELSE /\ pc' = [pc EXCEPT ![r] = "score"]
            /\ resp' = resp
    /\ UNCHANGED <<CLASS_LABELS, req, cxr_bytes, healthResp>>

\* Variant: the ValueError of an empty payload is not caught and reaches
\* the framework, which answers 500
ReadEcgUncaught(r) ==
    /\ pc[r] = "read_ecg"
    /\ ecg_bytes' = [ecg_bytes EXCEPT ![r] = req[r].ecg]
    /\ steps' = [steps EXCEPT ![r] = Append(@, "read_ecg")]
    /\ IF Len(req[r].ecg) = 0
       THEN /\ pc' = [pc EXCEPT ![r] = "done"]
            /\ resp' = [resp EXCEPT ![r] =
                           [status |-> 500,
                            body |-> [detail |-> "Internal Server Error"]]]
       ELSE /\ pc' = [pc EXCEPT ![r] = "score"]
            /\ resp' = resp
    /\ UNCHANGED <<CLASS_LABELS, req, cxr_bytes, healthResp>>

\* ecg.read() completes; an empty payload is rejected.
ReadEcg(r) ==
    /\ pc[r] = "read_ecg"
    /\ ecg_bytes' = [ecg_bytes EXCEPT ![r] = req[r].ecg]
    /\ steps' = [steps EXCEPT ![r] = Append(@, "read_ecg")]
    /\ IF Len(req[r].ecg) = 0
       THEN /\ pc' = [pc EXCEPT ![r] = "done"]
            /\ resp' = [resp EXCEPT ![r] = HTTPException(400, "Invalid ECG data")]
       ELSE /\ pc' = [pc EXCEPT ![r] = "score"]
            /\ resp' = resp
    /\ UNCHANGED <<CLASS_LABELS, req, cxr_bytes, healthResp>>

\* if "image1" in name or "image2" in name
ScoreCanned12(r) ==
    /\ pc[r] = "score"
    /\ Contains(LoweredName(req[r].filename), image1)
       \/ Contains(LoweredName(req[r].filename), image2)
    /\ resp' = [resp EXCEPT ![r] = Canned12Response(CLASS_LABELS)]
    /\ pc' = [pc EXCEPT ![r] = "done"]
    /\ steps' = [steps EXCEPT ![r] = Append(@, "score12")]
    /\ UNCHANGED <<CLASS_LABELS, req, cxr_bytes, ecg_bytes, healthResp>>

\* if "image3" in name
ScoreCanned3(r) ==
    /\ pc[r] = "score"
    /\ ~(Contains(LoweredName(req[r].filename), image1)
         \/ Contains(LoweredName(req[r].filename), image2))
    /\ Contains(LoweredName(req[r].filename), image3)
    /\ resp' = [resp EXCEPT ![r] = Canned3Response(CLASS_LABELS)]
    /\ pc' = [pc EXCEPT ![r] = "done"]
    /\ steps' = [steps EXCEPT ![r] = Append(@, "score3")]
    /\ UNCHANGED <<CLASS_LABELS, req, cxr_bytes, ecg_bytes, healthResp>>

\* Fallback demo prediction
ScoreFallback(r) ==
    /\ pc[r] = "score"
    /\ ~(Contains(LoweredName(req[r].filename), image1)
         \/ Contains(LoweredName(req[r].filename), image2))
    /\ ~Contains(LoweredName(req[r].filename), image3)
    /\ resp' = [resp EXCEPT ![r] =
                   FallbackResponse(CLASS_LABELS, cxr_bytes[r], ecg_bytes[r])]
    /\ pc' = [pc EXCEPT ![r] = "done"]
    /\ steps' = [steps EXCEPT ![r] = Append(@, "fallback")]
    /\ UNCHANGED <<CLASS_LABELS, req, cxr_bytes, ecg_bytes, healthResp>>

\* The framework sends the response; the request and its locals are gone.
Respond(r) ==
    /\ pc[r] = "done"
    /\ pc' = [pc EXCEPT ![r] = "idle"]
    /\ req' = [req EXCEPT ![r] = NoReq]
    /\ cxr_bytes' = [cxr_bytes EXCEPT ![r] = <<>>]
    /\ ecg_bytes' = [ecg_bytes EXCEPT ![r] = <<>>]
    /\ resp' = [resp EXCEPT ![r] = NoResp]
    /\ steps' = [steps EXCEPT ![r] = <<>>]
    /\ UNCHANGED <<CLASS_LABELS, healthResp>>

\* The steps of a request once it has arrived
Handle(r) ==
    \/ ReadCxr(r)
    \/ ReadEcg(r)
    \/ ScoreCanned12(r)
    \/ ScoreCanned3(r)
    \/ ScoreFallback(r)
    \/ Respond(r)

\* One request at a time
Next ==
    \/ Health
    \/ \E r \in Reqs : ArriveSerial(r)
    \/ \E r \in Reqs : Handle(r)

Spec == Init /\ [][Next]_vars

\* Requests interleaved at their awaits
NextConc ==
    \/ Health
    \/ \E r \in Reqs : ArriveConc(r)
    \/ \E r \in Reqs : Handle(r)

SpecConc == Init /\ [][NextConc]_vars

\* ---------------------------------------------------------------------
\* Properties
\* ---------------------------------------------------------------------

Range(s) == {s[i] : i \in 1..Len(s)}

ErrCXR == [status |-> 400, body |-> [detail |-> "Invalid CXR image"]]
ErrECG == [status |-> 400, body |-> [detail |-> "Invalid ECG data"]]

ScoringSteps == {"score12", "score3", "fallback"}

\* Two characters that are the same letter, whatever their case
SameLetter(a, b) == a = b \/ <<a, b>> \in CasePairs \/ <<b, a>> \in CasePairs

\* The filename f has pat as a substring, compared case-insensitively
HasCI(f, pat) ==
    /\ ~f.isNone
    /\ \E i \in 0..(Len(f.str) - Len(pat)) :
           \A j \in 1..Len(pat) : SameLetter(f.str[i + j], pat[j])

\* Request q passes both validations
Valid(q) == Decodable(q.cxr) /\ Len(q.ecg) > 0

\* Request q is scored by the fallback rule
OnFallback(q) ==
    /\ Valid(q)
    /\ ~HasCI(q.filename, image1)
    /\ ~HasCI(q.filename, image2)
    /\ ~HasCI(q.filename, image3)

\* Position of label k in the Label Set (0 when absent)
LabelIndex(k) ==
    IF \E i \in 1..Len(Labels14) : Labels14[i] = k
    THEN CHOOSE i \in 1..Len(Labels14) : Labels14[i] = k
    ELSE 0

\* C1: in every successful response, on whichever scoring path, findings
\* holds exactly the labels whose probability is >= 0.5 (0.5 included), in
\* Label Set order, each with the confidence its probabilities entry has.
C1_FindingsAreThresholdedProbabilities ==
    \A r \in Reqs :
        (pc[r] = "done" /\ resp[r].status = 200) =>
            LET P == resp[r].body.probabilities
                F == resp[r].body.findings
            IN  /\ \A j \in 1..Len(F) :
                       \E i \in 1..Len(P) :
                           /\ P[i].k = F[j].finding
                           /\ P[i].v >= 50
                           /\ F[j].confidence_score = P[i].v
                /\ \A i \in 1..Len(P) :
                       P[i].v >= 50 =>
                           \E j \in 1..Len(F) : F[j].finding = P[i].k
                /\ \A j \in 1..Len(F) : LabelIndex(F[j].finding) > 0
                /\ \A j1, j2 \in 1..Len(F) :
                       j1 < j2 =>
                           LabelIndex(F[j1].finding) < LabelIndex(F[j2].finding)

\* A fallback response with a probability of exactly 0.5, reported as a
\* finding, next to a probability below 0.5.
C1_Witness ==
    \E r \in Reqs :
        /\ pc[r] = "done"
        /\ "fallback" \in Range(steps[r])
        /\ \E i \in 1..Len(resp[r].body.probabilities) :
               /\ resp[r].body.probabilities[i].v = 50
               /\ \E j \in 1..Len(resp[r].body.findings) :
                      resp[r].body.findings[j] =
                          [finding |-> resp[r].body.probabilities[i].k,
                           confidence_score |-> 50]
        /\ \E i \in 1..Len(resp[r].body.probabilities) :
               resp[r].body.probabilities[i].v < 50

\* C2: in every successful response the probabilities map has the 14 labels
\* of the Label Set as its keys, once each and in that order, and every
\* value lies in [0, 1].
C2_ProbabilitiesCoverTheLabelSet ==
    \A r \in Reqs :
        (pc[r] = "done" /\ resp[r].status = 200) =>
            LET P == resp[r].body.probabilities
            IN  /\ Len(P) = 14
                /\ \A i \in 1..Len(P) :
                       /\ P[i].k = Labels14[i]
                       /\ P[i].v >= 0
                       /\ P[i].v <= 100

\* A response of the "image1"/"image2" branch, whose map is filled and then
\* assigned to twice.
C2_Witness ==
    \E r \in Reqs :
        /\ pc[r] = "done"
        /\ resp[r].status = 200
        /\ "score12" \in Range(steps[r])
        /\ Len(resp[r].body.probabilities) = 14

\* C3: a request whose image cannot be decoded ends with 400 "Invalid CXR
\* image"; its signal payload is never read and no scoring step runs, also
\* when the signal is empty.
C3_InvalidImageFailsFast ==
    \A r \in Reqs :
        (pc[r] # "idle" /\ ~Decodable(req[r].cxr)) =>
            /\ pc[r] \in {"read_cxr", "done"}
            /\ "read_ecg" \notin Range(steps[r])
            /\ Range(steps[r]) \cap ScoringSteps = {}
            /\ ecg_bytes[r] = <<>>
            /\ pc[r] = "done" => resp[r] = ErrCXR

\* A finished request with an undecodable image and an empty signal.
C3_Witness ==
    \E r \in Reqs :
        /\ pc[r] = "done"
        /\ ~Decodable(req[r].cxr)
        /\ req[r].ecg = <<>>
        /\ resp[r] = ErrCXR
        /\ steps[r] = <<"read_cxr">>

\* C4: with a decodable image, the request ends with 400 "Invalid ECG data"
\* exactly when the signal has length zero; every other signal is accepted
\* and the request is scored.
C4_SignalRejectedIffEmpty ==
    \A r \in Reqs :
        /\ (pc[r] = "done" /\ Decodable(req[r].cxr)) =>
               /\ resp[r] = ErrECG <=> Len(req[r].ecg) = 0
               /\ Len(req[r].ecg) > 0 =>
                      /\ resp[r].status = 200
                      /\ Range(steps[r]) \cap ScoringSteps # {}
               /\ Len(req[r].ecg) = 0 => Range(steps[r]) \cap ScoringSteps = {}
        /\ pc[r] = "score" => Len(req[r].ecg) > 0

\* A scored request whose signal starts with byte 0, which is no image
\* signature.
C4_Witness ==
    \E r \in Reqs :
        /\ pc[r] = "done"
        /\ Decodable(req[r].cxr)
        /\ Len(req[r].ecg) > 0
        /\ req[r].ecg[1] = 0
        /\ resp[r].status = 200

\* The response of the "image1"/"image2" rule
C5_Expected ==
    [status |-> 200,
     body |-> [success |-> TRUE,
               findings |->
                   <<[finding |-> "Cardiomegaly", confidence_score |-> 92],
                     [finding |-> "Effusion", confidence_score |-> 78]>>,
               probabilities |->
                   [i \in 1..14 |->
                       [k |-> Labels14[i],
                        v |-> IF Labels14[i] = "Cardiomegaly" THEN 92
                              ELSE IF Labels14[i] = "Effusion" THEN 78
                              ELSE 12]]]]

\* C5: a validated request whose filename contains "image1" or "image2",
\* case-insensitively, gets Cardiomegaly 0.92, Effusion 0.78, every other
\* label 0.12 and those two findings, whatever the payload sizes and also
\* when the filename contains "image3".
C5_Image12Response ==
    \A r \in Reqs :
        (/\ pc[r] = "done"
         /\ Valid(req[r])
         /\ HasCI(req[r].filename, image1) \/ HasCI(req[r].filename, image2))
        => resp[r] = C5_Expected

\* A finished request whose filename has "image3" and, in another case,
\* "image1".
C5_Witness ==
    \E r \in Reqs :
        /\ pc[r] = "done"
        /\ Valid(req[r])
        /\ HasCI(req[r].filename, image3)
        /\ HasCI(req[r].filename, image1)
        /\ ~Contains(req[r].filename.str, image1)
        /\ resp[r] = C5_Expected

\* C6: a validated request whose filename contains "image3" and neither
\* "image1" nor "image2", case-insensitively, gets 0.08 for all 14 labels
\* and no finding.
C6_Image3Response ==
    \A r \in Reqs :
        (/\ pc[r] = "done"
         /\ Valid(req[r])
         /\ HasCI(req[r].filename, image3)
         /\ ~HasCI(req[r].filename, image1)
         /\ ~HasCI(req[r].filename, image2))
        => /\ resp[r].status = 200
           /\ resp[r].body.success = TRUE
           /\ resp[r].body.findings = <<>>
           /\ resp[r].body.probabilities =
                  [i \in 1..14 |-> [k |-> Labels14[i], v |-> 8]]

\* A finished request named "IMAGE3" with the longest payloads.
C6_Witness ==
    \E r \in Reqs :
        /\ pc[r] = "done"
        /\ Valid(req[r])
        /\ HasCI(req[r].filename, image3)
        /\ ~Contains(req[r].filename.str, image3)
        /\ ~HasCI(req[r].filename, image1)
        /\ ~HasCI(req[r].filename, image2)
        /\ Len(req[r].cxr) > 1
        /\ resp[r].body.findings = <<>>

\* C7: two finished requests with the same filename and payloads have the
\* same response, and two finished fallback requests whose payload lengths
\* have the same sum have the same probabilities and findings.
C7_Deterministic ==
    \A r1, r2 \in Reqs :
        (pc[r1] = "done" /\ pc[r2] = "done") =>
            /\ req[r1] = req[r2] => resp[r1] = resp[r2]
            /\ (/\ OnFallback(req[r1])
                /\ OnFallback(req[r2])
                /\ Len(req[r1].cxr) + Len(req[r1].ecg)
                       = Len(req[r2].cxr) + Len(req[r2].ecg))
               => /\ resp[r1].body.probabilities = resp[r2].body.probabilities
                  /\ resp[r1].body.findings = resp[r2].body.findings

\* Two finished fallback requests of the same total length, split
\* differently between image and signal, with the same response.
C7_Witness ==
    \E r1, r2 \in Reqs :
        /\ r1 # r2
        /\ pc[r1] = "done"
        /\ pc[r2] = "done"
        /\ OnFallback(req[r1])
        /\ OnFallback(req[r2])
        /\ Len(req[r1].cxr) # Len(req[r2].cxr)
        /\ req[r1].filename # req[r2].filename
        /\ Len(req[r1].cxr) + Len(req[r1].ecg)
               = Len(req[r2].cxr) + Len(req[r2].ecg)
        /\ resp[r1] = resp[r2]
        /\ resp[r1].status = 200

C9_HealthAlwaysOk ==
    healthResp # NoResp => healthResp = [status |-> 200, body |-> [status |-> "ok"]]

\* /health has answered and a /predict request has failed.
C9_Witness ==
    /\ healthResp = [status |-> 200, body |-> [status |-> "ok"]]
    /\ \E r \in Reqs : pc[r] = "done" /\ resp[r].status = 400

\* C10: with requests interleaved at their awaits, each request reads its
\* own payloads and gets the response it gets when run alone, and
\* CLASS_LABELS keeps its 14 labels in order.
C10_RequestsIndependent ==
    /\ CLASS_LABELS = Labels14
    /\ \A r \in Reqs :
        /\ pc[r] \in {"read_ecg", "score"} => cxr_bytes[r] = req[r].cxr
        /\ pc[r] = "score" => ecg_bytes[r] = req[r].ecg
        /\ pc[r] = "done" => resp[r] = PredictAlone(Labels14, req[r])

\* A fallback request finished while a different request stood between its
\* two reads.
C10_Witness ==
    \E r1, r2 \in Reqs :
        /\ r1 # r2
        /\ pc[r1] = "done"
        /\ "fallback" \in Range(steps[r1])
        /\ pc[r2] \in {"read_ecg", "score"}
        /\ Len(req[r1].cxr) # Len(req[r2].cxr)

====
